---------------------------- MODULE Spec2Model ----------------------------
(***************************************************************************)
(* Model of src/src/namespace.rs: the status parser get_nspid and the      *)
(* mount-namespace context NsInfo (new, enter_mntns, pid, Drop).           *)
(*                                                                         *)
(* The ambient state the code mutates is per OS thread: the mount          *)
(* namespace a thread is associated with and its working directory.        *)
(* /proc is the environment: the inspected process, its mount namespace    *)
(* and the text of its status record.                                      *)
(***************************************************************************)
EXTENDS Integers, Sequences, FiniteSets, TLC

(* ------------------------------ bounds -------------------------------- *)
MaxId == 2
MaxDepth == 2
MaxEnter == 2

(* --------------------------- program values --------------------------- *)
\* Pid::Slf, the self sentinel; every other Pid wraps a non-zero u32.
Slf == 0
\* What a token that is no unsigned integer converts to.
NaP == -1
\* Inode of the mount namespace behind /proc/self/ns/mnt at start-up.
CallerNs == 1
\* Inode of a mount namespace other than the caller's.
OtherNs == 2

Ids == 1..MaxId
\* Stand-in for u32::MAX: an id no process has.
GonePid == MaxId + 1
MntNs == {CallerNs, OtherNs}
\* Inode of a mount namespace the inspected process can move to later.
LaterNs == 3
Root == "/"
Dirs == {Root, "/a", "/b"}
Threads == {"t1", "t2"}
\* /proc/self is the thread-group leader's directory.
Leader == "t1"
WS == " "
None == << >>
NoPath == ""

(* ------------------------- the /proc environment ---------------------- *)
\* Ids of one process in each pid namespace it belongs to, outermost
\* (the one procfs shows) first, its own last.
Chains == UNION {[1..n -> Ids] : n \in 1..MaxDepth}

Last(s) == s[Len(s)]

\* Shapes of a status record.  "full" and "noNS" are what the kernel prints
\* (with and without CONFIG_PID_NS); the others are malformed or truncated.
KernelShapes == {"full", "noNS"}
Shapes == KernelShapes \cup {"noTgid", "emptyTgid", "nsFirst", "empty"}
\* "trailing": a full record with lines after NStgid that name both keys.
ParseShapes == Shapes \cup {"trailing"}

\* The command name of the inspected process, printed on the Name line: up
\* to 15 characters the process chooses itself, spaces and colons included.
PlainComm == <<"w">>
Comms == {PlainComm,
          <<"Tgid:", WS, "2">>,
          <<"NStgid:", WS, "2">>,
          <<"Tgid:", WS, "NStgid:", WS, "2">>}

RECURSIVE IdTokens(_, _)
IdTokens(chain, i) ==
    IF i > Len(chain) THEN << >>
    ELSE <<WS, ToString(chain[i])>> \o IdTokens(chain, i + 1)

NameLine(comm) == <<"Name:", WS>> \o comm
TgidLine(chain) == <<"Tgid:", WS, ToString(chain[1])>>
PidLine(chain) == <<"Pid:", WS, ToString(chain[1])>>
NStgidLine(chain) == <<"NStgid:">> \o IdTokens(chain, 1)
NSpidLine(chain) == <<"NSpid:">> \o IdTokens(chain, 1)

StatusRecord(comm, chain, shape) ==
    CASE shape = "full" ->
           <<NameLine(comm), TgidLine(chain), PidLine(chain),
             NStgidLine(chain), NSpidLine(chain)>>
      [] shape = "noNS" ->
           <<NameLine(comm), TgidLine(chain), PidLine(chain)>>
      [] shape = "noTgid" ->
           <<NameLine(comm), PidLine(chain)>>
      [] shape = "emptyTgid" ->
           <<NameLine(comm), <<"Tgid:", WS>>, PidLine(chain)>>
      [] shape = "nsFirst" ->
           <<NameLine(comm), NStgidLine(chain), TgidLine(chain),
             PidLine(chain)>>
      [] shape = "trailing" ->
           <<NameLine(comm), TgidLine(chain), PidLine(chain),
             NStgidLine(chain), NSpidLine(chain),
             TgidLine(<<GonePid>>), NStgidLine(<<GonePid>>)>>
      [] OTHER -> << >>

\* The processes a context can be built for: the caller itself (through the
\* sentinel or through its own number), another process, a process that
\* does not exist.
Envs ==
    {[kind |-> k, chain |-> c, shape |-> s, mntns |-> CallerNs,
      comm |-> PlainComm] :
        k \in {"slf", "own"}, c \in Chains, s \in KernelShapes}
    \cup
    {[kind |-> "other", chain |-> c, shape |-> s, mntns |-> m,
      comm |-> PlainComm] :
        c \in Chains, s \in Shapes, m \in MntNs}
    \cup
    {[kind |-> "gone", chain |-> <<GonePid>>, shape |-> "empty",
      mntns |-> CallerNs, comm |-> PlainComm]}

\* The processes whose status record get_nspid is handed: other processes
\* with any command name and any record shape.
ParseEnvs ==
    {[kind |-> "other", chain |-> c, shape |-> s, mntns |-> CallerNs,
      comm |-> n] :
        c \in Chains, s \in ParseShapes, n \in Comms}

\* Without CONFIG_PID_NS there is a single level of ids.  A caller that
\* passes its own number, process::id(), finds itself under /proc only when
\* procfs shows its own pid namespace: a single level too.
WellFormedEnv(e) ==
    /\ e.shape = "noNS" => Len(e.chain) = 1
    /\ e.kind = "own" => Len(e.chain) = 1

VARIABLES
    ns,      \* thread -> mount namespace the thread is associated with
    cwd,     \* thread -> working directory of the thread
    env,     \* the inspected process as /proc shows it
    info,    \* the NsInfo value
    pc,      \* where the owning task is
    cur,     \* the OS thread the owning task runs on
    nspid,   \* last result of get_nspid
    ret,     \* last value returned by enter_mntns or pid
    obs      \* what was observed of the run so far

vars == <<ns, cwd, env, info, pc, cur, nspid, ret, obs>>

(* ------------------------------ crate::Pid ---------------------------- *)
\* Display of a Pid inside "/proc/{pid}/...".
PidStr(p) == IF p = Slf THEN "self" ELSE ToString(p)

\* Pid from a status token: the token parsed as an unsigned integer.
PidFrom(tok) ==
    IF Len(tok) = 1 /\ \E n \in 1..GonePid : ToString(n) = tok[1]
    THEN CHOOSE n \in 1..GonePid : ToString(n) = tok[1]
    ELSE NaP

\* std::process::id(): the caller's id in its own pid namespace.
process_id(e) == Last(e.chain)

\* The Pid the caller passes for the inspected process.
InputPid(e) ==
    CASE e.kind = "slf" -> Slf
      [] e.kind = "own" -> process_id(e)
      [] e.kind = "gone" -> GonePid
      [] OTHER -> e.chain[1]

\* Does /proc/<name> exist.
ProcExists(e, name) == e.kind # "gone" /\ name = PidStr(InputPid(e))

(* ------------------------------ get_nspid ----------------------------- *)
\* str::contains(key)
Contains(line, key) == \E i \in 1..Len(line) : line[i] = key

\* line.split(key).last()
SplitLast(line, key) ==
    IF Contains(line, key)
    THEN LET i == CHOOSE j \in 1..Len(line) :
                    /\ line[j] = key
                    /\ \A k \in (j + 1)..Len(line) : line[k] # key
         IN SubSeq(line, i + 1, Len(line))
    ELSE line

\* Mutant of LastToken: the first token is taken instead of the last.
FirstToken(s) ==
    IF \A i \in 1..Len(s) : s[i] = WS THEN None
    ELSE LET b == CHOOSE j \in 1..Len(s) :
                    /\ s[j] # WS
                    /\ \A k \in 1..(j - 1) : s[k] = WS
             e == CHOOSE j \in b..Len(s) :
                    /\ \A k \in b..j : s[k] # WS
                    /\ (j = Len(s) \/ s[j + 1] = WS)
         IN SubSeq(s, b, e)

\* s.split_whitespace().next_back(); None when s holds no token.
LastToken(s) ==
    IF \A i \in 1..Len(s) : s[i] = WS THEN None
    ELSE LET e == CHOOSE j \in 1..Len(s) :
                    /\ s[j] # WS
                    /\ \A k \in (j + 1)..Len(s) : s[k] = WS
             b == CHOOSE j \in 1..e :
                    /\ \A k \in j..e : s[k] # WS
                    /\ (j = 1 \/ s[j - 1] = WS)
         IN SubSeq(s, b, e)

ScanTgid(line, st) ==
    IF Contains(line, "Tgid:") /\ LastToken(SplitLast(line, "Tgid:")) # None
    THEN [st EXCEPT !.tgid = PidFrom(LastToken(SplitLast(line, "Tgid:"))),
                    !.nstgid = PidFrom(LastToken(SplitLast(line, "Tgid:"))),
                    !.found = TRUE]
    ELSE st

ScanNStgid(line, st) ==
    IF Contains(line, "NStgid:") /\ LastToken(SplitLast(line, "NStgid:")) # None
    THEN [st EXCEPT !.nstgid = PidFrom(LastToken(SplitLast(line, "NStgid:"))),
                    !.stop = TRUE]
    ELSE st

\* Body of the for loop for one line that was read.
ScanLine(line, st) == ScanNStgid(line, ScanTgid(line, st))

\* The for loop: lines from the i-th on; reading line errAt fails (0: none).
RECURSIVE ScanFrom(_, _, _, _)
ScanFrom(lines, i, errAt, st) ==
    IF st.stop \/ i > Len(lines) THEN st
    ELSE IF i = errAt THEN [st EXCEPT !.ioerr = TRUE, !.stop = TRUE]
    ELSE ScanFrom(lines, i + 1, errAt, ScanLine(lines[i], st))

Err == [kind |-> "err", tgid |-> NaP, nstgid |-> NaP]
Panic == [kind |-> "panic", tgid |-> NaP, nstgid |-> NaP]
NotCalled == [kind |-> "none", tgid |-> NaP, nstgid |-> NaP]

\* After the loop: unreachable!() when no Tgid value was seen.
NotFoundResult == Panic

\* Mutant of get_nspid: a failed File::open is unwrapped instead of returned.
get_nspid_unwrap(e, pid, io) ==
    IF ~ProcExists(e, PidStr(pid)) \/ ~io.open THEN Panic
    ELSE LET st == ScanFrom(StatusRecord(e.comm, e.chain, e.shape), 1, io.errAt,
                            [tgid |-> pid, nstgid |-> pid, found |-> FALSE,
                             stop |-> FALSE, ioerr |-> FALSE])
         IN IF st.ioerr THEN Err
            ELSE IF ~st.found THEN NotFoundResult
            ELSE [kind |-> "ok", tgid |-> st.tgid, nstgid |-> st.nstgid]

\* io.open: does File::open succeed; io.errAt: the line whose read fails.
get_nspid(e, pid, io) ==
    IF ~ProcExists(e, PidStr(pid)) \/ ~io.open THEN Err
    ELSE LET st == ScanFrom(StatusRecord(e.comm, e.chain, e.shape), 1, io.errAt,
                            [tgid |-> pid, nstgid |-> pid, found |-> FALSE,
                             stop |-> FALSE, ioerr |-> FALSE])
         IN IF st.ioerr THEN Err
            ELSE IF ~st.found THEN NotFoundResult
            ELSE [kind |-> "ok", tgid |-> st.tgid, nstgid |-> st.nstgid]

\* Outcomes of the file operations of get_nspid: the scan of a record reads
\* at most five lines before it ends.
IOs == [open : BOOLEAN, errAt : 0..5]

(* -------------------------------- NsInfo ------------------------------ *)
NoInfo == [tgid |-> NaP, nstgid |-> NaP, need_setns |-> FALSE,
           mntns_path |-> NoPath, oldns |-> CallerNs, oldcwd |-> Root]

\* Inode of /proc/<name>/ns/mnt: the mount namespace of the process's
\* leader thread.
ProcMntNs(e) == IF e.kind \in {"slf", "own"} THEN ns[Leader] ELSE e.mntns

\* Mutant of NeedSetns: the comparison is inverted.
NeedSetnsInverted(old_ino, new_ino) == old_ino = new_ino

\* old_stat.ino() != new_stat.ino()
NeedSetns(old_ino, new_ino) == old_ino # new_ino

\* Mutant of RcFailed: the sign of the test is wrong.
RcFailedPositive(rc) == rc > 0

\* Mutant of RcFailed: the return code of setns is not looked at.
RcFailedNever(rc) == FALSE

\* rc < 0 after setns
RcFailed(rc) == rc < 0

\* Mutant of pid: the two branches are swapped.
pid_swapped(self) == IF self.need_setns THEN self.tgid ELSE self.nstgid

\* NsInfo::pid
pid(self) == IF self.need_setns THEN self.nstgid ELSE self.tgid

\* The steps of NsInfo::new that can fail before get_nspid is called.
NewFails == {"none", "stat_old", "stat_new", "open_old", "cwd"}

\* Mutant of NewInfo: the path is stored whether or not a switch is needed.
NewInfoPathAlways(r, path, old_ino, new_ino, dir) ==
    [tgid |-> r.tgid, nstgid |-> r.nstgid,
     need_setns |-> NeedSetns(old_ino, new_ino),
     mntns_path |-> path,
     oldns |-> old_ino, oldcwd |-> dir]

\* Mutant of NewInfo: the working directory is not snapshotted.
NewInfoCwdRoot(r, path, old_ino, new_ino, dir) ==
    [tgid |-> r.tgid, nstgid |-> r.nstgid,
     need_setns |-> NeedSetns(old_ino, new_ino),
     mntns_path |-> IF NeedSetns(old_ino, new_ino) THEN path ELSE NoPath,
     oldns |-> old_ino, oldcwd |-> Root]

\* The value NsInfo::new builds once every step has succeeded.
NewInfo(r, path, old_ino, new_ino, dir) ==
    [tgid |-> r.tgid, nstgid |-> r.nstgid,
     need_setns |-> NeedSetns(old_ino, new_ino),
     mntns_path |-> IF NeedSetns(old_ino, new_ino) THEN path ELSE NoPath,
     oldns |-> old_ino, oldcwd |-> dir]

\* NsInfo::new(pid) on thread cur; f is the step that fails, io the outcome
\* of the reads of get_nspid.
New(f, io) ==
    /\ pc = "start"
    /\ LET p == InputPid(env)
           path == PidStr(p)
           statFails == f \in {"stat_old", "stat_new"} \/ ~ProcExists(env, path)
           r == get_nspid(env, p, io)
       IN IF statFails \/ f \in {"open_old", "cwd"}
          THEN /\ pc' = "failed"
               /\ UNCHANGED <<info, nspid, obs>>
          ELSE /\ nspid' = r
               /\ pc' = CASE r.kind = "ok" -> "live"
                          [] r.kind = "err" -> "failed"
                          [] OTHER -> "panicked"
               /\ info' = IF r.kind = "ok"
                          THEN NewInfo(r, path, ns[Leader], ProcMntNs(env),
                                       cwd[cur])
                          ELSE info
               /\ obs' = [obs EXCEPT !.statNs = ProcMntNs(env)]
    /\ UNCHANGED <<ns, cwd, env, cur, ret>>

\* get_nspid called on its own, as the tests do.
GetNspidCall(io) ==
    /\ pc = "start"
    /\ nspid' = get_nspid(env, InputPid(env), io)
    /\ pc' = IF nspid'.kind = "panic" THEN "panicked" ELSE pc
    /\ UNCHANGED <<ns, cwd, env, info, cur, ret, obs>>

\* Mutant of SetnsNs: the call leaves the thread where it was.
SetnsNsNoop(t, target) == ns

\* setns(fd, CLONE_NEWNS) that succeeded on thread t: the thread joins the
\* namespace and the kernel resets its working directory to the root.
SetnsNs(t, target) == [ns EXCEPT ![t] = target]
SetnsCwd(t) == [cwd EXCEPT ![t] = Root]

Rcs == {0, -1}

\* No enter_mntns is pending its immediate exit.
NoPre == [thread |-> Leader, ns |-> CallerNs, cwd |-> Root]

\* NsInfo::enter_mntns on thread cur; opened: does File::open of the target
\* namespace succeed; rc: what setns returns (the kernel switches the thread
\* exactly when it returns 0).
EnterMntns(opened, rc) ==
    /\ pc = "live"
    /\ obs.switches < MaxEnter
    /\ IF ~info.need_setns
       THEN /\ ret' = [ret EXCEPT !.enter = "Ok"]
            /\ obs' = [obs EXCEPT !.immediate = FALSE, !.pre = NoPre]
            /\ UNCHANGED <<ns, cwd, pc>>
       ELSE IF info.mntns_path = NoPath
       THEN /\ pc' = "panicked"
            /\ UNCHANGED <<ns, cwd, ret, obs>>
       ELSE IF ~opened \/ ~ProcExists(env, info.mntns_path)
       THEN /\ ret' = [ret EXCEPT !.enter = "Err"]
            /\ obs' = [obs EXCEPT !.immediate = FALSE, !.pre = NoPre]
            /\ UNCHANGED <<ns, cwd, pc>>
       ELSE /\ ns' = IF rc = 0 THEN SetnsNs(cur, ProcMntNs(env)) ELSE ns
            /\ cwd' = IF rc = 0 THEN SetnsCwd(cur) ELSE cwd
            /\ ret' = [ret EXCEPT !.enter = IF RcFailed(rc) THEN "Err"
                                            ELSE "Ok"]
            /\ obs' = IF rc = 0
                      THEN [obs EXCEPT !.switches = @ + 1,
                                       !.immediate = TRUE,
                                       !.pre = [thread |-> cur, ns |-> ns[cur],
                                                cwd |-> cwd[cur]]]
                      ELSE [obs EXCEPT !.immediate = FALSE, !.pre = NoPre]
            /\ pc' = pc
    /\ UNCHANGED <<env, info, cur, nspid>>

\* NsInfo::pid called by the owner.
CallPid ==
    /\ pc = "live"
    /\ ret' = [ret EXCEPT !.pid = pid(info)]
    /\ UNCHANGED <<ns, cwd, env, info, pc, cur, nspid, obs>>

\* The ways the owner's work can end.
ExitPaths == {"return", "error", "unwind"}

\* Mutant of RunsDrop: the restoration is an explicit call on the normal
\* path only.
RunsDropOnReturn(how) == how = "return"

\* impl Drop: the value's destructor runs however its scope is left.
RunsDrop(how) == how \in ExitPaths

\* Mutant of DropRestores: the early return of drop is missing.
DropRestoresAlways(self) == TRUE

\* Does drop go on to restore: the early return of drop.
DropRestores(self) == self.need_setns

\* Mutant of RestoreDir: the directory is left where setns put it.
RestoreDirRoot(self) == Root

\* The directory drop sets the working directory back to.
RestoreDir(self) == self.oldcwd

\* `let _ = set_current_dir(..)`: the Result is bound to _ and dropped; what
\* the caller or a log gets to see of it.
Discarded(result) == "none"

\* Mutant of CwdAfterRestore: the directory is set first and setns second.
CwdAfterRestoreSwapped(t, self, rc, cd) ==
    LET c == IF cd THEN [cwd EXCEPT ![t] = RestoreDir(self)] ELSE cwd
    IN IF rc = 0 THEN [c EXCEPT ![t] = Root] ELSE c

\* The working directories after drop's two restore steps on thread t, in
\* the order of the code: setns(oldns), which puts t at the root when it
\* returns 0, then set_current_dir(oldcwd), which takes effect when cd.
CwdAfterRestore(t, self, rc, cd) ==
    LET c == IF rc = 0 THEN SetnsCwd(t) ELSE cwd
    IN IF cd THEN [c EXCEPT ![t] = RestoreDir(self)] ELSE c

\* The owner's work ends by `how` and the NsInfo is released on thread cur;
\* rc: what setns(oldns) returns (the kernel switches the thread exactly
\* when it returns 0); cd: does set_current_dir succeed.
Drop(how, rc, cd) ==
    /\ pc = "live"
    /\ IF ~RunsDrop(how) \/ ~DropRestores(info)
       THEN /\ pc' = "dropped"
            /\ UNCHANGED <<ns, cwd, obs>>
       ELSE IF RcFailed(rc)
       THEN /\ pc' = IF how = "unwind" THEN "aborted" ELSE "panicked"
            /\ obs' = [obs EXCEPT !.restoreRc = "fail"]
            /\ UNCHANGED <<ns, cwd>>
       ELSE /\ pc' = "dropped"
            /\ ns' = IF rc = 0 THEN SetnsNs(cur, info.oldns) ELSE ns
            /\ cwd' = CwdAfterRestore(cur, info, rc, cd)
            /\ obs' = [obs EXCEPT !.restores = @ + 1,
                                  !.restoreRc = IF rc = 0 THEN "ok" ELSE "fail",
                                  !.chdirRc = IF cd THEN "ok" ELSE "fail",
                                  !.chdirSeen =
                                      Discarded(IF cd THEN "ok" ELSE "fail")]
    /\ UNCHANGED <<env, info, cur, nspid, ret>>

\* The caller changes its working directory while it owns the NsInfo.
Chdir(d) ==
    /\ pc = "live"
    /\ d # cwd[cur]
    /\ cwd' = [cwd EXCEPT ![cur] = d]
    /\ obs' = [obs EXCEPT !.immediate = FALSE, !.pre = NoPre]
    /\ UNCHANGED <<ns, env, info, pc, cur, nspid, ret>>

\* The runtime moves the owning task, and the NsInfo with it, to thread t:
\* NsInfo is Send, nothing ties it to the thread that built or entered.
Migrate(t) ==
    /\ pc = "live"
    /\ t # cur
    /\ cur' = t
    /\ obs' = [obs EXCEPT !.immediate = FALSE, !.pre = NoPre]
    /\ UNCHANGED <<ns, cwd, env, info, pc, nspid, ret>>

Init ==
    /\ ns = [t \in Threads |-> CallerNs]
    /\ \E d \in Dirs : cwd = [t \in Threads |-> d]
    /\ env \in {e \in Envs : WellFormedEnv(e)}
    /\ info = NoInfo
    /\ pc = "start"
    /\ cur = Leader
    /\ nspid = NotCalled
    /\ ret = [enter |-> "none", pid |-> NaP]
    /\ obs = [switches |-> 0, restores |-> 0,
              restoreRc |-> "none", chdirRc |-> "none",
              chdirSeen |-> "none", immediate |-> FALSE,
              pre |-> NoPre,
              cwd0 |-> cwd[Leader], statNs |-> CallerNs]

Next ==
    \/ \E f \in NewFails, io \in IOs : New(f, io)
    \/ \E io \in IOs : GetNspidCall(io)
    \/ \E opened \in BOOLEAN, rc \in Rcs : EnterMntns(opened, rc)
    \/ CallPid
    \/ \E how \in ExitPaths, rc \in Rcs, cd \in BOOLEAN : Drop(how, rc, cd)
    \/ \E d \in Dirs : Chdir(d)
    \/ \E t \in Threads : Migrate(t)

Spec == Init /\ [][Next]_vars

\* The owner's work always ends, and the release of the NsInfo follows.
SpecLive == Spec /\ WF_vars(\E how \in ExitPaths, rc \in Rcs, cd \in BOOLEAN : Drop(how, rc, cd))

\* get_nspid on its own, over every record and command name.
InitParse ==
    /\ ns = [t \in Threads |-> CallerNs]
    /\ \E d \in Dirs : cwd = [t \in Threads |-> d]
    /\ env \in {e \in ParseEnvs : WellFormedEnv(e)}
    /\ info = NoInfo
    /\ pc = "start"
    /\ cur = Leader
    /\ nspid = NotCalled
    /\ ret = [enter |-> "none", pid |-> NaP]
    /\ obs = [switches |-> 0, restores |-> 0,
              restoreRc |-> "none", chdirRc |-> "none",
              chdirSeen |-> "none", immediate |-> FALSE,
              pre |-> NoPre,
              cwd0 |-> cwd[Leader], statNs |-> CallerNs]

NextParse == \E io \in IOs : GetNspidCall(io)

SpecParse == InitParse /\ [][NextParse]_vars

\* The inspected process is not under the caller's control: while the
\* context is live it can join another mount namespace, ...
TargetMoves(m) ==
    /\ pc = "live"
    /\ env.kind = "other"
    /\ m # env.mntns
    /\ env' = [env EXCEPT !.mntns = m]
    /\ UNCHANGED <<ns, cwd, info, pc, cur, nspid, ret, obs>>

\* ... exit, so that /proc/<pid> is gone, ...
TargetExits ==
    /\ pc = "live"
    /\ env.kind = "other"
    /\ env' = [env EXCEPT !.kind = "gone"]
    /\ UNCHANGED <<ns, cwd, info, pc, cur, nspid, ret, obs>>

\* ... and its number can be given to a new process with ids c in mount
\* namespace m, which /proc/<pid> then shows.
TargetReused(c, m) ==
    /\ pc = "live"
    /\ env.kind = "gone"
    /\ c[1] = env.chain[1]
    /\ env' = [env EXCEPT !.kind = "other", !.chain = c, !.mntns = m]
    /\ UNCHANGED <<ns, cwd, info, pc, cur, nspid, ret, obs>>

\* A context for another process, with that process running alongside.
InitRace ==
    /\ Init
    /\ env.kind = "other" /\ env.shape = "full"

NextRace ==
    \/ \E f \in NewFails, io \in IOs : New(f, io)
    \/ \E opened \in BOOLEAN, rc \in Rcs : EnterMntns(opened, rc)
    \/ CallPid
    \/ \E how \in ExitPaths, rc \in Rcs, cd \in BOOLEAN : Drop(how, rc, cd)
    \/ \E m \in MntNs \cup {LaterNs} : TargetMoves(m)
    \/ TargetExits
    \/ \E c \in Chains, m \in MntNs \cup {LaterNs} : TargetReused(c, m)

SpecRace == InitRace /\ [][NextRace]_vars

(* ------------------------------- claims ------------------------------- *)
Released == {"dropped", "panicked", "aborted"}

\* C1 as stated: after the first successful enter_mntns followed immediately
\* by an exit whose two restore steps succeed, the entering thread's mount
\* namespace and working directory equal their values just before the
\* enter, whatever the caller did between NsInfo::new and the enter.
C1_RoundTripToPreEnter ==
    (pc = "dropped" /\ obs.immediate /\ obs.chdirRc = "ok"
                    /\ obs.switches = 1)
        => /\ ns[obs.pre.thread] = obs.pre.ns
           /\ cwd[obs.pre.thread] = obs.pre.cwd

\* C1 amended: a successful enter_mntns followed immediately by an exit that
\* does not panic leaves the entering thread in the mount namespace saved by
\* NsInfo::new and in the working directory saved by NsInfo::new (at the
\* root when set_current_dir fails); these are the values just before the
\* enter exactly when the thread was then still in the saved namespace and
\* directory.
C1_RoundTripToConstruction ==
    (pc = "dropped" /\ obs.immediate)
        => /\ info.need_setns
           /\ ns[obs.pre.thread] = info.oldns
           /\ cwd[obs.pre.thread] =
                 IF obs.chdirRc = "ok" THEN info.oldcwd ELSE Root
           /\ (obs.chdirRc = "ok" /\ obs.pre.ns = info.oldns
                                  /\ obs.pre.cwd = info.oldcwd)
                 => /\ ns[obs.pre.thread] = obs.pre.ns
                    /\ cwd[obs.pre.thread] = obs.pre.cwd

\* C1 witness: enter then immediate exit, both restore steps succeeded, and
\* the caller had changed its directory after NsInfo::new.
C1_Witness ==
    /\ pc = "dropped" /\ obs.immediate /\ obs.chdirRc = "ok"
    /\ obs.pre.cwd # info.oldcwd
    /\ cwd[obs.pre.thread] = info.oldcwd

\* C2: once enter_mntns has switched the thread, every way the work ends
\* runs the restoration: the context is eventually released with the
\* re-association attempted, and a context released without escalation
\* leaves the releasing thread in the namespace saved at construction.
C2_GuaranteedRelease ==
    /\ [](pc = "dropped" /\ obs.switches > 0
            => obs.restoreRc = "ok" /\ ns[cur] = info.oldns)
    /\ (pc = "live" /\ obs.switches > 0)
          ~> (pc \in Released /\ obs.restoreRc # "none")

\* C2 witness: a context that had entered was released and the releasing
\* thread is back in the saved namespace.
C2_Witness ==
    /\ pc = "dropped" /\ obs.switches > 0 /\ obs.restoreRc = "ok"
    /\ ns[cur] = info.oldns

\* C3 as stated (its particular case): a context with need_setns true on
\* which no enter_mntns succeeded performs no namespace re-association and
\* no working-directory change when it is released.
C3_NoRestoreWithoutEnter ==
    (pc \in Released /\ info.need_setns /\ obs.switches = 0)
        => obs.restoreRc = "none" /\ obs.chdirRc = "none"

\* C4: when the re-association with the saved namespace fails on exit, the
\* exit panics or aborts, set_current_dir is not called, and the task never
\* continues.
C4_FatalRestoreFailure ==
    obs.restoreRc = "fail" => pc \in {"panicked", "aborted"}
                              /\ obs.chdirRc = "none"
                              /\ obs.restores = 0

\* C4 witness: the re-association failed and the exit panicked.
C4_Witness == obs.restoreRc = "fail" /\ pc = "panicked"

\* Records in which scanning never observes a Tgid value.
NoTgidShapes == {"noTgid", "emptyTgid", "nsFirst", "empty"}

\* C5 as stated: for a readable status record in which no Tgid value is
\* observed, get_nspid returns an error value and never panics.
C5_MissingTgidIsError ==
    (env.kind = "other" /\ env.shape \in NoTgidShapes /\ nspid.kind # "none")
        => nspid.kind = "err" /\ pc # "panicked"

\* C6: for a process id that does not exist, get_nspid and NsInfo::new
\* return an error, nothing panics, no context is built and no thread's
\* mount namespace or working directory changes.
C6_GoneIsError ==
    env.kind = "gone"
        => /\ pc \in {"start", "failed"}
           /\ nspid.kind \in {"none", "err"}
           /\ info = NoInfo
           /\ ns = [t \in Threads |-> CallerNs]
           /\ cwd = [t \in Threads |-> obs.cwd0]

\* C6 witness: both get_nspid and NsInfo::new were called for the missing
\* process and returned errors.
C6_Witness == env.kind = "gone" /\ pc = "failed" /\ nspid.kind = "err"

\* C7 as stated: whatever the runtime does with the owning task between
\* enter and exit, once the context is released no thread is left outside
\* the namespace saved at construction.
C7_ThreadAffinity ==
    pc = "dropped" => \A t \in Threads : ns[t] = info.oldns

\* C8: pid() returns the namespace-local id (the last NStgid token) when
\* need_setns is true and the host id (the Tgid value) when it is false; a
\* target in the caller's mount namespace yields its host id, a target in
\* another mount namespace its innermost id.
C8_PidAccessor ==
    pc = "live"
        => /\ info.need_setns => pid(info) = Last(env.chain)
           /\ ~info.need_setns => pid(info) = env.chain[1]
           /\ (env.kind = "other" /\ env.mntns = CallerNs)
                 => pid(info) = env.chain[1]
           /\ (env.kind = "other" /\ env.mntns # CallerNs)
                 => pid(info) = Last(env.chain)
           /\ ret.pid # NaP => ret.pid = pid(info)

\* C8 witness: a target in another mount namespace whose host id is not 1
\* and whose namespace-local id is 1: pid() returned 1.
C8_Witness ==
    /\ pc = "live" /\ info.need_setns /\ ret.pid = 1
    /\ env.chain[1] # 1 /\ Last(env.chain) = 1

C11_NoOpPath ==
    /\ []((~info.need_setns /\ pc \in {"live", "dropped"})
            => /\ obs.switches = 0
               /\ obs.restoreRc = "none" /\ obs.chdirRc = "none"
               /\ ret.enter \in {"none", "Ok"}
               /\ \A t \in Threads : ns[t] = CallerNs)
    /\ [][(/\ ~info.need_setns
           /\ \/ \E opened \in BOOLEAN, rc \in Rcs : EnterMntns(opened, rc)
              \/ \E how \in ExitPaths, rc \in Rcs, cd \in BOOLEAN :
                    Drop(how, rc, cd))
            => /\ ns' = ns
               /\ cwd' = cwd
               /\ pc' = "live" => ret'.enter = "Ok"]_vars

\* C11 witness: a context with need_setns false was entered and released
\* after the caller had changed its working directory, which the release
\* left alone.
C11_Witness ==
    /\ pc = "dropped" /\ ~info.need_setns /\ ret.enter = "Ok"
    /\ cwd[cur] # info.oldcwd

\* C12: when need_setns is true and the open of the target namespace or the
\* setns call is refused, enter_mntns returns Err to its caller, the context
\* stays usable (no panic), and the step changes no thread's mount namespace
\* or working directory.
C12_EnterFailureRecoverable ==
    [][(/\ info.need_setns
        /\ info.mntns_path # NoPath
        /\ \E opened \in BOOLEAN, rc \in Rcs :
              /\ ~opened \/ ~ProcExists(env, info.mntns_path) \/ rc < 0
              /\ EnterMntns(opened, rc))
         => /\ ret'.enter = "Err"
            /\ pc' = "live"
            /\ ns' = ns
            /\ cwd' = cwd]_vars

\* C12 witness: an enter on a context that needs the switch has just
\* returned Err with the thread still where it was constructed.
C12_Witness ==
    /\ pc = "live" /\ info.need_setns /\ ret.enter = "Err"
    /\ obs.switches = 0
    /\ ns[cur] = info.oldns /\ cwd[cur] = info.oldcwd /\ cwd[cur] # Root

\* C13: when the exit restored the original namespace but set_current_dir
\* failed, the failure is visible to the caller or in a log, the exit
\* completes without panic, and the thread is in the original namespace.
C13_ChdirFailureReported ==
    (obs.restoreRc = "ok" /\ obs.chdirRc = "fail")
        => /\ obs.chdirSeen = "fail"
           /\ pc = "dropped"
           /\ ns[cur] = info.oldns

\* C14: an exit of a context with need_setns true whose setns(oldns) and
\* set_current_dir(oldcwd) both succeeded leaves the releasing thread in the
\* saved namespace and in the saved directory: the reset of the working
\* directory to the root by setns comes first and is overwritten.
C14_RestoreOrder ==
    (/\ pc = "dropped" /\ info.need_setns
     /\ obs.restoreRc = "ok" /\ obs.chdirRc = "ok")
        => /\ ns[cur] = info.oldns
           /\ cwd[cur] = info.oldcwd

\* C14 witness: a context entered from a directory other than the root was
\* released with both restore steps succeeding.
C14_Witness ==
    /\ pc = "dropped" /\ info.need_setns /\ obs.switches > 0
    /\ obs.restoreRc = "ok" /\ obs.chdirRc = "ok"
    /\ info.oldcwd # Root /\ cwd[cur] = info.oldcwd

\* C15 as stated: no context performs a second namespace switch before its
\* exit; a second enter_mntns is turned away.
C15_SecondEnterRejected == obs.switches <= 1

\* C15 amended: enter_mntns keeps no record of an earlier enter; a second
\* call on a live context opens the target and calls setns again, and when
\* that succeeds it returns Ok with the calling thread in the target
\* namespace at the root. The context is still released at most once.
C15_SecondEnterRepeats ==
    /\ (pc = "live" /\ obs.immediate /\ obs.switches >= 2)
          => /\ ret.enter = "Ok"
             /\ ns[cur] = ProcMntNs(env)
             /\ cwd[cur] = Root
    /\ obs.restores <= 1

\* C15 witness: a second enter_mntns has just succeeded on a context that
\* was not released in between.
C15_Witness ==
    /\ pc = "live" /\ obs.immediate /\ obs.switches = 2
    /\ obs.restores = 0 /\ ret.enter = "Ok"
    /\ ns[cur] = ProcMntNs(env) /\ ns[cur] # info.oldns

\* An NsInfo has been built.
Constructed == info # NoInfo

\* C16: in every state of a constructed context mntns_path is set exactly
\* when need_setns is true, need_setns is the comparison made in NsInfo::new
\* of the caller's namespace inode with the target's, the path is the
\* target's, and no later step changes any field of the context; so the
\* unwrap in enter_mntns never meets None.
C16_HandleIffSwitch ==
    /\ [](Constructed
            => /\ (info.mntns_path # NoPath) <=> info.need_setns
               /\ info.need_setns <=> (info.oldns # obs.statNs)
               /\ info.need_setns
                    => info.mntns_path = PidStr(InputPid(env)))
    /\ [][Constructed => info' = info]_vars
    /\ [][(pc = "live" /\ info.need_setns /\ pc' = "panicked")
             => obs'.restoreRc = "fail"]_vars

\* C16 witness: a context that needs the switch has been entered and asked
\* for its pid, with its path in place.
C16_Witness ==
    /\ pc = "live" /\ info.need_setns /\ info.mntns_path # NoPath
    /\ obs.switches > 0 /\ ret.enter = "Ok" /\ ret.pid # NaP

\* C17: every constructed context, whether or not it needs the switch, holds
\* the mount namespace and the working directory the caller had when
\* NsInfo::new ran, taken before any setns; and NsInfo::new, whether it
\* succeeds, fails or panics, changes no thread's mount namespace or working
\* directory.
C17_CaptureAtConstruction ==
    /\ [](Constructed
            => /\ info.oldns = CallerNs
               /\ info.oldcwd = obs.cwd0)
    /\ [][pc = "start"
            => /\ ns' = ns /\ cwd' = cwd
               /\ obs'.switches = 0
               /\ Constructed'
                    => /\ info'.oldns = ns[cur]
                       /\ info'.oldcwd = cwd[cur]]_vars

\* C17 witness: a context that needs no switch was built in a directory
\* other than the root and holds that directory and the caller's namespace.
C17_Witness ==
    /\ pc = "live" /\ Constructed /\ ~info.need_setns
    /\ info.oldcwd # Root /\ info.oldcwd = obs.cwd0
    /\ info.oldns = CallerNs

\* Records with a Tgid line that has a value, and those of them in which an
\* NStgid line comes after it.
TgidValueShapes == {"full", "noNS", "nsFirst", "trailing"}
NStgidFollowsShapes == {"full", "trailing"}

\* C18 as stated: for every status record with a Tgid line that has a value,
\* a get_nspid call whose reads succeed returns the last token of the Tgid
\* line as host id, the last token of the NStgid line as local id when that
\* line follows, the host id when there is no NStgid line, and nothing after
\* the NStgid line counts.
C18_ExtractionRule ==
    (nspid.kind \in {"ok", "panic"} /\ env.shape \in TgidValueShapes)
        => /\ nspid.kind = "ok"
           /\ nspid.tgid = env.chain[1]
           /\ env.shape \in NStgidFollowsShapes
                => nspid.nstgid = Last(env.chain)
           /\ env.shape = "noNS" => nspid.nstgid = nspid.tgid

\* The same process under an ordinary command name.
PlainEnv(e) == [e EXCEPT !.comm = PlainComm]

\* C19: what get_nspid returns is what it returns for the same record with
\* an ordinary Name line: key text inside the value of another line changes
\* no id, ends no scan and causes no failure.
C19_KeyBasedMatching ==
    nspid.kind # "none"
        => \E io \in IOs : nspid = get_nspid(PlainEnv(env), InputPid(env), io)

\* C20: whatever the inspected process does between NsInfo::new and
\* enter_mntns, the namespace a successful enter_mntns puts the thread in is
\* the one whose inode NsInfo::new compared with the caller's, and pid()
\* returns an id read at construction.
C20_NoCheckUseGap ==
    /\ (pc = "live" /\ info.need_setns /\ obs.immediate /\ ret.enter = "Ok")
          => ns[cur] = obs.statNs
    /\ ret.pid # NaP => ret.pid \in {info.tgid, info.nstgid}
=============================================================================
